---------------------------- MODULE Spec2Model ----------------------------
(***************************************************************************)
(* Model of the expense tracker view-model in src/web/app/page.tsx: the    *)
(* React component Home, its two effects (load from and persist to         *)
(* localStorage), its handlers addExpense and removeExpense, and the       *)
(* derived values filteredExpenses and total.                              *)
(*                                                                         *)
(* JavaScript strings are sequences of one-character strings, so that      *)
(* slice, trim, parseFloat, toFixed and the JSON conversions are computed  *)
(* character by character.  JavaScript values are records tagged with t.   *)
(***************************************************************************)
EXTENDS Integers, Sequences, FiniteSets

(***************************************************************************)
(* Bounds of the model.                                                    *)
(***************************************************************************)
\* The add button is only pressed while the collection holds fewer records.
MaxRecords == 2
\* Date.now() returns a value in 1..MaxClock.
MaxClock == 1
\* setItem throws (quota exceeded) at most this many times in a session.
MaxWriteFailures == 1
\* The derived view is checked on every collection of up to this many records.
MaxViewRecords == 2

(***************************************************************************)
(* JavaScript values.                                                      *)
(***************************************************************************)
Undefined == [t |-> "undefined"]
Null == [t |-> "null"]
Bool(b) == [t |-> "boolean", b |-> b]
Str(s) == [t |-> "string", s |-> s]
Arr(a) == [t |-> "array", a |-> a]
\* An object is the sequence of its own properties [k, v] in insertion order.
Obj(p) == [t |-> "object", p |-> p]

\* A finite number is m / 10^e, kept normalised (no trailing zero in m
\* while e > 0), so that equal numbers are equal records.
RECURSIVE Fin(_, _)
Fin(m, e) ==
  IF e > 0 /\ m % 10 = 0 THEN Fin(m \div 10, e - 1)
  ELSE [t |-> "number", k |-> "fin", m |-> m, e |-> e]
\* +Infinity (sign = 1) and -Infinity (sign = -1).
Inf(sign) == [t |-> "number", k |-> "inf", m |-> sign, e |-> 0]
NaN == [t |-> "number", k |-> "nan", m |-> 0, e |-> 0]

IsNaN(x) == x.k = "nan"
\* x <= 0 on numbers: false for NaN.
LeqZero(x) == x.k # "nan" /\ x.m <= 0
\* x > 0 on numbers: false for NaN.
GtZero(x) == x.k # "nan" /\ x.m > 0
IsFinite(x) == x.k = "fin"

RECURSIVE Pow10(_)
Pow10(n) == IF n = 0 THEN 1 ELSE 10 * Pow10(n - 1)

Max(a, b) == IF a >= b THEN a ELSE b

\* JavaScript number addition (exact on the decimal values of the model).
NumAdd(x, y) ==
  IF x.k = "nan" \/ y.k = "nan" THEN NaN
  ELSE IF x.k = "inf" /\ y.k = "inf" THEN (IF x.m = y.m THEN x ELSE NaN)
  ELSE IF x.k = "inf" THEN x
  ELSE IF y.k = "inf" THEN y
  ELSE LET e == Max(x.e, y.e)
       IN Fin(x.m * Pow10(e - x.e) + y.m * Pow10(e - y.e), e)

(***************************************************************************)
(* Characters and decimal digits.                                          *)
(***************************************************************************)
DigitSeq == <<"0", "1", "2", "3", "4", "5", "6", "7", "8", "9">>
Digits == {DigitSeq[i] : i \in 1..10}
DigitChar(d) == DigitSeq[d + 1]
DigitVal(c) == CHOOSE d \in 0..9 : DigitSeq[d + 1] = c

RECURSIVE DecChars(_)
\* The decimal digits of a natural number.
DecChars(n) ==
  IF n < 10 THEN <<DigitChar(n)>>
  ELSE DecChars(n \div 10) \o <<DigitChar(n % 10)>>

RECURSIVE DigitsValue(_)
\* The natural number a sequence of digits denotes (0 for the empty one).
DigitsValue(ds) ==
  IF ds = <<>> THEN 0
  ELSE 10 * DigitsValue(SubSeq(ds, 1, Len(ds) - 1)) + DigitVal(ds[Len(ds)])

RECURSIVE DigitsLen(_)
\* The length of the longest prefix of s made of digits.
DigitsLen(s) ==
  IF s # <<>> /\ Head(s) \in Digits THEN 1 + DigitsLen(Tail(s)) ELSE 0

StartsWith(s, p) == Len(s) >= Len(p) /\ SubSeq(s, 1, Len(p)) = p

\* String.prototype.slice(from, to) with 0 <= from <= to.
Slice(s, from, to) ==
  SubSeq(s, from + 1, IF to < Len(s) THEN to ELSE Len(s))

WhiteSpace == {" "}

RECURSIVE TrimStart(_)
TrimStart(s) ==
  IF s # <<>> /\ Head(s) \in WhiteSpace THEN TrimStart(Tail(s)) ELSE s

RECURSIVE TrimEnd(_)
TrimEnd(s) ==
  IF s # <<>> /\ s[Len(s)] \in WhiteSpace
  THEN TrimEnd(SubSeq(s, 1, Len(s) - 1)) ELSE s

\* String.prototype.trim.
Trim(s) == TrimEnd(TrimStart(s))

InfinityChars == <<"I", "n", "f", "i", "n", "i", "t", "y">>
NaNChars == <<"N", "a", "N">>

\* The largest number of integer digits of a finite double (1.797...e308).
MaxDoubleDigits == 309

(***************************************************************************)
(* parseFloat: leading white space is skipped, then the longest prefix     *)
(* that is a decimal literal (sign, "Infinity", digits, ".", digits,       *)
(* exponent) is converted; NaN when there is none.  A literal with more    *)
(* integer digits than a double can hold is Infinity; the texts of the     *)
(* model are far from that boundary and from underflow.                    *)
(***************************************************************************)
DigitsPrefix(s) == SubSeq(s, 1, DigitsLen(s))
AfterDigits(s) == SubSeq(s, DigitsLen(s) + 1, Len(s))

\* The value of sign * mant * 10^shift as a double.
Scale(sign, mant, shift) ==
  IF mant = 0 THEN Fin(0, 0)
  ELSE IF Len(DecChars(mant)) + shift > MaxDoubleDigits THEN Inf(sign)
  ELSE IF shift >= 0 THEN Fin(sign * mant * Pow10(shift), 0)
  ELSE Fin(sign * mant, -shift)

\* The exponent written after e or E (0 when no digit follows).
ExponentOf(ex) ==
  IF ex = <<>> THEN 0
  ELSE IF Head(ex) = "-" THEN -DigitsValue(DigitsPrefix(Tail(ex)))
  ELSE IF Head(ex) = "+" THEN DigitsValue(DigitsPrefix(Tail(ex)))
  ELSE DigitsValue(DigitsPrefix(ex))

\* The literal with integer digits intDs, fraction digits fracDs, then rest.
ParseExponent(sign, intDs, fracDs, rest) ==
  IF intDs \o fracDs = <<>> THEN NaN
  ELSE Scale(sign, DigitsValue(intDs \o fracDs),
             (IF rest # <<>> /\ Head(rest) \in {"e", "E"}
              THEN ExponentOf(Tail(rest)) ELSE 0) - Len(fracDs))

ParseFraction(sign, intDs, rest) ==
  IF rest # <<>> /\ Head(rest) = "."
  THEN ParseExponent(sign, intDs, DigitsPrefix(Tail(rest)),
                     AfterDigits(Tail(rest)))
  ELSE ParseExponent(sign, intDs, <<>>, rest)

ParseUnsigned(sign, u) ==
  IF StartsWith(u, InfinityChars) THEN Inf(sign)
  ELSE ParseFraction(sign, DigitsPrefix(u), AfterDigits(u))

ParseSigned(t) ==
  ParseUnsigned(IF t # <<>> /\ Head(t) = "-" THEN -1 ELSE 1,
                IF t # <<>> /\ Head(t) \in {"+", "-"} THEN Tail(t) ELSE t)

ParseFloat(s) == ParseSigned(TrimStart(s))

(***************************************************************************)
(* Number.prototype.toFixed(2): the nearest multiple of 0.01 (the larger   *)
(* one on a tie), written with exactly two fractional digits; ToString of  *)
(* a non-finite number.  Ties are taken on the decimal value: the texts of *)
(* the model have no decimal tie whose binary double lies below it.        *)
(***************************************************************************)
Abs(m) == IF m < 0 THEN -m ELSE m
MinusIf(neg) == IF neg THEN <<"-">> ELSE <<>>

\* n hundredths written with two fractional digits.
FixedChars(n) ==
  DecChars(n \div 100) \o <<".", DigitChar((n \div 10) % 10), DigitChar(n % 10)>>

ToFixed2(x) ==
  IF x.k = "nan" THEN NaNChars
  ELSE IF x.k = "inf" THEN MinusIf(x.m < 0) \o InfinityChars
  ELSE MinusIf(x.m < 0)
       \o FixedChars((2 * Abs(x.m) * 100 + Pow10(x.e)) \div (2 * Pow10(x.e)))

(***************************************************************************)
(* Number::toString of a finite number in the range where no exponent is   *)
(* written (every stored amount is a multiple of 0.01 below 10^21).        *)
(***************************************************************************)
RECURSIVE PadLeft(_, _)
PadLeft(ds, n) == IF Len(ds) >= n THEN ds ELSE PadLeft(<<"0">> \o ds, n)

\* The digits ds with a point before the last e of them.
PointBefore(ds, e) ==
  SubSeq(ds, 1, Len(ds) - e)
  \o (IF e = 0 THEN <<>> ELSE <<".">> \o SubSeq(ds, Len(ds) - e + 1, Len(ds)))

NumberToString(x) ==
  MinusIf(x.m < 0) \o PointBefore(PadLeft(DecChars(Abs(x.m)), x.e + 1), x.e)

(***************************************************************************)
(* JSON texts.  A text is the sequence of its lexemes, each lexeme the     *)
(* sequence of its characters: "[", "]", "{", "}", ":", ",", a quoted      *)
(* string, a number, null, true, false.  The empty text is <<>>.           *)
(***************************************************************************)
LBracket == <<"[">>
RBracket == <<"]">>
LBrace == <<"{">>
RBrace == <<"}">>
Colon == <<":">>
Comma == <<",">>
NullLex == <<"n", "u", "l", "l">>
TrueLex == <<"t", "r", "u", "e">>
FalseLex == <<"f", "a", "l", "s", "e">>

\* QuoteJSONString; the strings of the model hold no character to escape.
Quote(s) == <<"\"">> \o s \o <<"\"">>
IsStringLex(l) == Len(l) >= 2 /\ l[1] = "\"" /\ l[Len(l)] = "\""
Unquote(l) == SubSeq(l, 2, Len(l) - 1)

\* The JSON number grammar without exponent: -? (0 | [1-9][0-9]*) (. [0-9]+)?
IsUnsignedNumberLex(u) ==
  /\ DigitsLen(u) >= 1
  /\ (DigitsLen(u) > 1 => u[1] # "0")
  /\ \/ AfterDigits(u) = <<>>
     \/ /\ Head(AfterDigits(u)) = "."
        /\ Len(AfterDigits(u)) >= 2
        /\ DigitsLen(Tail(AfterDigits(u))) = Len(AfterDigits(u)) - 1

IsNumberLex(l) ==
  IsUnsignedNumberLex(IF l # <<>> /\ Head(l) = "-" THEN Tail(l) ELSE l)

RECURSIVE JoinLex(_)
\* The lexeme sequences of parts, separated by commas.
JoinLex(parts) ==
  IF parts = <<>> THEN <<>>
  ELSE IF Len(parts) = 1 THEN parts[1]
  ELSE parts[1] \o <<Comma>> \o JoinLex(Tail(parts))

RECURSIVE Stringify(_)
(***************************************************************************)
(* JSON.stringify of a value that is not undefined: a non-finite number    *)
(* becomes null, a property whose value is undefined is left out, an       *)
(* undefined array element becomes null.                                   *)
(***************************************************************************)
Stringify(v) ==
  CASE v.t = "null" -> <<NullLex>>
    [] v.t = "undefined" -> <<NullLex>>
    [] v.t = "boolean" -> <<IF v.b THEN TrueLex ELSE FalseLex>>
    [] v.t = "string" -> <<Quote(v.s)>>
    [] v.t = "number" ->
         <<IF v.k = "fin" THEN NumberToString(v) ELSE NullLex>>
    [] v.t = "array" ->
         <<LBracket>>
         \o JoinLex([i \in 1..Len(v.a) |-> Stringify(v.a[i])])
         \o <<RBracket>>
    [] v.t = "object" ->
         LET kept == SelectSeq(v.p, LAMBDA q : q.v.t # "undefined")
         IN <<LBrace>>
            \o JoinLex([i \in 1..Len(kept) |->
                 <<Quote(kept[i].k), Colon>> \o Stringify(kept[i].v)])
            \o <<RBrace>>

\* The result of a failed parse (JSON.parse throws SyntaxError).
ParseFail == [ok |-> FALSE, v |-> Undefined, next |-> 0]
ParseOk(v, next) == [ok |-> TRUE, v |-> v, next |-> next]
LexAt(toks, i) == IF i >= 1 /\ i <= Len(toks) THEN toks[i] ELSE <<>>

RECURSIVE ParseValue(_, _)
RECURSIVE ParseElements(_, _, _)
RECURSIVE ParseMembers(_, _, _)
\* One JSON value starting at lexeme i; next is the lexeme after it.
ParseValue(toks, i) ==
  LET l == LexAt(toks, i)
  IN IF l = <<>> THEN ParseFail
     ELSE IF l = LBracket
     THEN (IF LexAt(toks, i + 1) = RBracket THEN ParseOk(Arr(<<>>), i + 2)
           ELSE ParseElements(toks, i + 1, <<>>))
     ELSE IF l = LBrace
     THEN (IF LexAt(toks, i + 1) = RBrace THEN ParseOk(Obj(<<>>), i + 2)
           ELSE ParseMembers(toks, i + 1, <<>>))
     ELSE IF l = NullLex THEN ParseOk(Null, i + 1)
     ELSE IF l = TrueLex THEN ParseOk(Bool(TRUE), i + 1)
     ELSE IF l = FalseLex THEN ParseOk(Bool(FALSE), i + 1)
     ELSE IF IsStringLex(l) THEN ParseOk(Str(Unquote(l)), i + 1)
     ELSE IF IsNumberLex(l) THEN ParseOk(ParseFloat(l), i + 1)
     ELSE ParseFail

\* The elements of an array after "[", up to and including "]".
ParseElements(toks, i, acc) ==
  LET r == ParseValue(toks, i)
  IN IF ~r.ok THEN ParseFail
     ELSE IF LexAt(toks, r.next) = Comma
     THEN ParseElements(toks, r.next + 1, Append(acc, r.v))
     ELSE IF LexAt(toks, r.next) = RBracket
     THEN ParseOk(Arr(Append(acc, r.v)), r.next + 1)
     ELSE ParseFail

\* The properties acc with key set to v (a repeated key keeps the last value).
WithMember(acc, key, v) ==
  Append(SelectSeq(acc, LAMBDA q : q.k # key), [k |-> key, v |-> v])

\* The members of an object after "{", up to and including "}".
ParseMembers(toks, i, acc) ==
  IF ~IsStringLex(LexAt(toks, i)) \/ LexAt(toks, i + 1) # Colon THEN ParseFail
  ELSE LET r == ParseValue(toks, i + 2)
       IN IF ~r.ok THEN ParseFail
          ELSE IF LexAt(toks, r.next) = Comma
          THEN ParseMembers(toks, r.next + 1,
                            WithMember(acc, Unquote(LexAt(toks, i)), r.v))
          ELSE IF LexAt(toks, r.next) = RBrace
          THEN ParseOk(Obj(WithMember(acc, Unquote(LexAt(toks, i)), r.v)),
                       r.next + 1)
          ELSE ParseFail

\* JSON.parse: ok is FALSE when it throws SyntaxError.
JSONParse(toks) ==
  LET r == ParseValue(toks, 1)
  IN IF r.ok /\ r.next = Len(toks) + 1 THEN r ELSE ParseFail

\* Array.isArray.
IsArray(v) == v.t = "array"

\* o.key for an object o (undefined when o has no such property).
Get(o, key) ==
  IF o.t = "object" /\ \E i \in 1..Len(o.p) : o.p[i].k = key
  THEN o.p[CHOOSE i \in 1..Len(o.p) : o.p[i].k = key].v
  ELSE Undefined

(***************************************************************************)
(* The texts the form fields and the environment can hold.                 *)
(***************************************************************************)
\* The value of the amount field when the add button is pressed.
AmountTexts ==
  { <<>>,                                   \* nothing typed
    <<"a", "b", "c">>,
    <<"0">>,
    <<"-", "5">>,
    <<"0", ".", "0", "0", "1">>,
    <<"1", "2", ".", "5", "0">>,
    <<"1", "e", "9", "9", "9">>,
    InfinityChars }
Nov01 == <<"2", "0", "2", "5", "-", "1", "1", "-", "0", "1">>
Nov15 == <<"2", "0", "2", "5", "-", "1", "1", "-", "1", "5">>
Dec01 == <<"2", "0", "2", "5", "-", "1", "2", "-", "0", "1">>
\* The value of the date field (empty when the date was cleared).
DateTexts == {<<>>, Nov01}
Food == <<"F", "o", "o", "d">>
Other == <<"O", "t", "h", "e", "r">>
\* The value of the category select: an entry of DEFAULT_CATEGORIES.
CategoryTexts == {Food}
\* The value of the note field (left blank).
NoteTexts == {<<>>, <<" ">>}
\* Date.now().
Clock == 1..MaxClock
\* Math.random().toString(36).slice(2, 8), e.g. of 0.5 ("0.i") and 0.25 ("0.9").
Suffixes == {<<"i">>, <<"9">>}
\* The sentinel of the month filter, and month values.
All == <<"a", "l", "l">>
Filters == {All, Slice(Nov01, 0, 7), Slice(Dec01, 0, 7)}

K_id == <<"i", "d">>
K_date == <<"d", "a", "t", "e">>
K_category == <<"c", "a", "t", "e", "g", "o", "r", "y">>
K_amount == <<"a", "m", "o", "u", "n", "t">>
K_note == <<"n", "o", "t", "e">>

(***************************************************************************)
(* The state.                                                              *)
(***************************************************************************)
VARIABLES
  expenses,     \* the expenses state of the last committed render
  pending,      \* the setExpenses call of the load effect not yet rendered
  filterMonth,  \* the filterMonth state
  slot,         \* localStorage[STORAGE_KEY]: has = FALSE when there is no item
  storage,      \* "ok", or "denied" when every localStorage access throws
  failures,     \* how many times setItem has thrown for lack of quota
  pc,           \* what runs next: an effect, a re-render or a user intent
  error,        \* where an uncaught exception was thrown, or "none"
  lastSave,     \* outcome of the latest setItem of the session
  boot          \* the slot the session started with, until the first intent

vars == <<expenses, pending, filterMonth, slot, storage, failures, pc, error,
          lastSave, boot>>

NoItem == [has |-> FALSE, text |-> <<>>]
Item(text) == [has |-> TRUE, text |-> text]
NoUpdate == [has |-> FALSE, v |-> Undefined]
Update(v) == [has |-> TRUE, v |-> v]
NoBoot == [known |-> FALSE, slot |-> NoItem, storage |-> "ok"]
Boot(sl, st) == [known |-> TRUE, slot |-> sl, storage |-> st]

(***************************************************************************)
(* addExpense builds the record: the id from the clock and a random        *)
(* suffix, the category trimmed ("Other" when blank), the amount rounded   *)
(* to two digits, the note trimmed (undefined when blank).                 *)
(***************************************************************************)
NewId(now, rnd) == Str(DecChars(now) \o <<"-">> \o rnd)

NewExpense(now, rnd, parsedAmount, category, date, note) ==
  Obj(<< [k |-> K_id, v |-> NewId(now, rnd)],
         [k |-> K_date, v |-> Str(date)],
         [k |-> K_category,
          v |-> Str(IF Trim(category) # <<>> THEN Trim(category) ELSE Other)],
         [k |-> K_amount, v |-> ParseFloat(ToFixed2(parsedAmount))],
         [k |-> K_note,
          v |-> IF Trim(note) # <<>> THEN Str(Trim(note)) ELSE Undefined] >>)

\* The updater of addExpense with the new record put last.
PrependAtEnd(e, prev) == Arr(Append(prev.a, e))

\* The updater of addExpense: the new record first, then the previous ones.
Prepend(e, prev) == Arr(<<e>> \o prev.a)

\* The updater of removeExpense: the records whose id is not the given one.
WithoutId(prev, id) ==
  Arr(SelectSeq(prev.a, LAMBDA e : Get(e, K_id) # id))

(***************************************************************************)
(* Rendering throws a TypeError when expenses is not an array (it has no   *)
(* filter, reduce or map), or when months reads e.date.slice of an element *)
(* that is null or whose date is not a string.                             *)
(***************************************************************************)
RenderThrows(v) ==
  \/ ~IsArray(v)
  \/ \E i \in 1..Len(v.a) : Get(v.a[i], K_date).t # "string"

(***************************************************************************)
(* The load effect: what it passes to setExpenses, if anything.  Reading   *)
(* may throw, and so may JSON.parse; both are caught and ignored.          *)
(***************************************************************************)
\* The load effect without the Array.isArray test.
LoadUpdateAnyValue(st, sl) ==
  IF st = "denied" THEN NoUpdate
  ELSE IF ~sl.has \/ sl.text = <<>> THEN NoUpdate
  ELSE LET r == JSONParse(sl.text)
       IN IF ~r.ok THEN NoUpdate ELSE Update(r.v)

LoadUpdate(st, sl) ==
  IF st = "denied" THEN NoUpdate
  ELSE IF ~sl.has \/ sl.text = <<>> THEN NoUpdate
  ELSE LET r == JSONParse(sl.text)
       IN IF ~r.ok THEN NoUpdate
          ELSE Update(IF IsArray(r.v) THEN r.v ELSE Arr(<<>>))

LoadEffect ==
  /\ pc = "mount"
  /\ pending' = LoadUpdate(storage, slot)
  /\ pc' = "mountPersist"
  /\ UNCHANGED <<expenses, filterMonth, slot, storage, failures, error,
                 lastSave, boot>>

\* What follows a run of the persist effect: the re-render the load effect
\* asked for, or nothing.
AfterPersist == IF pc = "mountPersist" /\ pending.has THEN "render" ELSE "idle"

\* The persist effect without its try/catch: a throwing setItem is uncaught.
PersistEffectUncaught ==
  /\ pc \in {"mountPersist", "persist"}
  /\ \/ /\ storage = "ok"
        /\ slot' = Item(Stringify(expenses))
        /\ lastSave' = "ok"
        /\ pc' = AfterPersist
        /\ UNCHANGED <<failures, error>>
     \/ /\ storage = "ok"
        /\ failures < MaxWriteFailures
        /\ failures' = failures + 1
        /\ lastSave' = "failed"
        /\ pc' = "crashed"
        /\ error' = "persist"
        /\ UNCHANGED slot
     \/ /\ storage = "denied"
        /\ lastSave' = "failed"
        /\ pc' = "crashed"
        /\ error' = "persist"
        /\ UNCHANGED <<slot, failures>>
  /\ UNCHANGED <<expenses, pending, filterMonth, storage, boot>>

(***************************************************************************)
(* The persist effect, run after the first render and after every render   *)
(* that changed expenses: it writes JSON.stringify(expenses) of the render *)
(* it belongs to.  setItem may throw; the exception is caught and ignored. *)
(***************************************************************************)
PersistEffect ==
  /\ pc \in {"mountPersist", "persist"}
  /\ \/ /\ storage = "ok"
        /\ slot' = Item(Stringify(expenses))
        /\ lastSave' = "ok"
        /\ UNCHANGED failures
     \/ /\ storage = "ok"
        /\ failures < MaxWriteFailures
        /\ failures' = failures + 1
        /\ lastSave' = "failed"
        /\ UNCHANGED slot
     \/ /\ storage = "denied"
        /\ lastSave' = "failed"
        /\ UNCHANGED <<slot, failures>>
  /\ pc' = AfterPersist
  /\ UNCHANGED <<expenses, pending, filterMonth, storage, error, boot>>

\* The re-render with the value the load effect passed to setExpenses.
Render ==
  /\ pc = "render"
  /\ expenses' = pending.v
  /\ pending' = NoUpdate
  /\ IF RenderThrows(pending.v)
     THEN pc' = "crashed" /\ error' = "render"
     ELSE pc' = "persist" /\ UNCHANGED error
  /\ UNCHANGED <<filterMonth, slot, storage, failures, lastSave, boot>>

\* addExpense when the persist effect does not depend on expenses.
AddExpenseNoEffect(amount, category, date, note) ==
  LET parsedAmount == ParseFloat(amount)
  IN /\ pc = "idle"
     /\ boot' = NoBoot
     /\ IF IsNaN(parsedAmount) \/ LeqZero(parsedAmount) \/ date = <<>>
        THEN UNCHANGED expenses
        ELSE \E now \in Clock, rnd \in Suffixes :
               expenses' =
                 Prepend(NewExpense(now, rnd, parsedAmount, category,
                                    date, note), expenses)
     /\ UNCHANGED <<pending, filterMonth, slot, storage, failures, pc, error,
                    lastSave>>

(***************************************************************************)
(* addExpense with the values of the form fields, followed by the          *)
(* re-render of the click event.  The fields amount and note it clears are *)
(* not part of the model.                                                  *)
(***************************************************************************)
AddExpense(amount, category, date, note) ==
  LET parsedAmount == ParseFloat(amount)
  IN /\ pc = "idle"
     /\ boot' = NoBoot
     /\ IF IsNaN(parsedAmount) \/ LeqZero(parsedAmount) \/ date = <<>>
        THEN UNCHANGED <<expenses, pc>>
        ELSE \E now \in Clock, rnd \in Suffixes :
               /\ expenses' =
                    Prepend(NewExpense(now, rnd, parsedAmount, category,
                                       date, note), expenses)
               /\ pc' = "persist"
     /\ UNCHANGED <<pending, filterMonth, slot, storage, failures, error,
                    lastSave>>

\* removeExpense, followed by the re-render of the click event.
RemoveExpense(id) ==
  /\ pc = "idle"
  /\ boot' = NoBoot
  /\ expenses' = WithoutId(expenses, id)
  /\ pc' = "persist"
  /\ UNCHANGED <<pending, filterMonth, slot, storage, failures, error,
                 lastSave>>

\* The filter select changes.
SetFilterMonth(f) ==
  /\ pc = "idle"
  /\ filterMonth' = f
  /\ UNCHANGED <<expenses, pending, slot, storage, failures, pc, error,
                 lastSave, boot>>

(***************************************************************************)
(* The derived values of a render.                                         *)
(***************************************************************************)
\* filteredExpenses comparing one character too few.
FilteredOfShortSlice(exp, f) ==
  IF f = All THEN exp
  ELSE Arr(SelectSeq(exp.a, LAMBDA e : Slice(Get(e, K_date).s, 0, 6) = f))

FilteredOf(exp, f) ==
  IF f = All THEN exp
  ELSE Arr(SelectSeq(exp.a, LAMBDA e : Slice(Get(e, K_date).s, 0, 7) = f))

RECURSIVE Reduce(_, _)
\* a.reduce((sum, e) => sum + e.amount, sum)
Reduce(a, sum) ==
  IF a = <<>> THEN sum
  ELSE Reduce(Tail(a), NumAdd(sum, Get(Head(a), K_amount)))

filteredExpenses == FilteredOf(expenses, filterMonth)
total == Reduce(filteredExpenses.a, Fin(0, 0))
entries == Len(filteredExpenses.a)

(***************************************************************************)
(* What localStorage can hold when the first session starts.               *)
(***************************************************************************)
SampleRecord ==
  NewExpense(1, <<"z">>, ParseFloat(<<"7">>), Food, Dec01, <<"t", "e", "a">>)
InitialSlots ==
  { NoItem,
    Item(<<>>),
    Item(<<LBracket>>),
    Item(<< <<"o", "o", "p", "s">> >>),
    Item(<<LBrace, RBrace>>),
    Item(<< <<"5">> >>),
    Item(<<NullLex>>),
    Item(<<LBracket, RBracket>>),
    Item(<<LBracket, <<"1">>, RBracket>>),
    Item(Stringify(Arr(<<SampleRecord>>))) }

Init ==
  /\ expenses = Arr(<<>>)
  /\ pending = NoUpdate
  /\ filterMonth = All
  /\ storage \in {"ok", "denied"}
  /\ slot \in (IF storage = "ok" THEN InitialSlots ELSE {NoItem})
  /\ failures = 0
  /\ pc = "mount"
  /\ error = "none"
  /\ lastSave = "none"
  /\ boot = Boot(slot, storage)

\* The ids a delete button can carry, and one that no record has.
AllIds == {NewId(now, rnd) : now \in Clock, rnd \in Suffixes}
            \cup {Get(SampleRecord, K_id)}

Next ==
  \/ LoadEffect
  \/ PersistEffect
  \/ Render
  \/ /\ Len(expenses.a) < MaxRecords
     /\ \E amount \in AmountTexts, category \in CategoryTexts,
           date \in DateTexts, note \in NoteTexts :
          AddExpense(amount, category, date, note)
  \/ \E id \in AllIds : RemoveExpense(id)

Spec == Init /\ [][Next]_vars

(***************************************************************************)
(* The derived view on its own: every collection of up to MaxViewRecords   *)
(* records, under every filter.                                            *)
(***************************************************************************)
ViewAmountTexts ==
  { <<"0", ".", "0", "0", "1">>,
    <<"3">>,
    <<"1", "2", ".", "5", "0">>,
    <<"1", "e", "9", "9", "9">> }
ViewDates == {Nov01, Nov15, Dec01}
ViewRecords ==
  {NewExpense(1, <<"i">>, ParseFloat(a), Food, d, <<>>) :
     a \in ViewAmountTexts, d \in ViewDates}
ViewCollections ==
  UNION {[1..n -> ViewRecords] : n \in 0..MaxViewRecords}

InitView ==
  /\ expenses \in {Arr(c) : c \in ViewCollections}
  /\ pending = NoUpdate
  /\ filterMonth \in Filters
  /\ storage = "ok"
  /\ slot = Item(Stringify(expenses))
  /\ failures = 0
  /\ pc = "idle"
  /\ error = "none"
  /\ lastSave = "ok"
  /\ boot = NoBoot

NextView == \E f \in Filters : SetFilterMonth(f)

SpecView == InitView /\ [][NextView]_vars

(***************************************************************************)
(* Properties.                                                             *)
(***************************************************************************)
Records == expenses.a
AmountOf(e) == Get(e, K_amount)

\* C1: every record of the collection has a stored amount greater than 0.
C1_AmountsPositive ==
  pc # "crashed" =>
    \A i \in 1..Len(Records) :
      AmountOf(Records[i]).t = "number" /\ GtZero(AmountOf(Records[i]))

\* C2: no two records of the collection have the same id.
C2_IdsUnique ==
  pc # "crashed" =>
    \A i, j \in 1..Len(Records) :
      i # j => Get(Records[i], K_id) # Get(Records[j], K_id)

\* The precondition of C3: the amount parses to a number greater than 0 and
\* the date is not empty.
ValidAdd(amount, date) == GtZero(ParseFloat(amount)) /\ date # <<>>

C4_InvalidAddRejected ==
  [][\A amount \in AmountTexts, category \in CategoryTexts,
        date \in DateTexts, note \in NoteTexts :
       (/\ \/ ~(IsFinite(ParseFloat(amount)) /\ GtZero(ParseFloat(amount)))
           \/ date = <<>>
        /\ AddExpense(amount, category, date, note))
         => expenses' = expenses]_vars

Keys(o) == {o.p[i].k : i \in 1..Len(o.p)}
\* Two records with the same value in every field (an absent field reads
\* as undefined).
SameFields(a, b) ==
  /\ a.t = "object" /\ b.t = "object"
  /\ \A key \in Keys(a) \cup Keys(b) : Get(a, key) = Get(b, key)
\* Two collections with the same records in the same order.
SameCollection(x, y) ==
  /\ IsArray(x) /\ IsArray(y)
  /\ Len(x.a) = Len(y.a)
  /\ \A i \in 1..Len(x.a) : SameFields(x.a[i], y.a[i])

\* C5: saving the collection and loading the saved text in a new session
\* yields the same records, with the same field values, in the same order.
C5_RoundTrip ==
  pc = "idle" =>
    /\ LoadUpdate("ok", Item(Stringify(expenses))).has
    /\ SameCollection(LoadUpdate("ok", Item(Stringify(expenses))).v, expenses)

\* The slot the session started with is missing, empty, malformed or not an
\* array, or reading it throws.
CorruptBoot ==
  \/ boot.storage = "denied"
  \/ ~boot.slot.has
  \/ boot.slot.text = <<>>
  \/ ~JSONParse(boot.slot.text).ok
  \/ ~IsArray(JSONParse(boot.slot.text).v)

\* C6: starting from a missing, empty, malformed or non-array slot, or from
\* a slot that cannot be read, the collection is and stays empty through
\* startup and no exception escapes.
C6_CorruptLoadsEmpty ==
  (boot.known /\ CorruptBoot) =>
    /\ expenses = Arr(<<>>)
    /\ pending.has => pending.v = Arr(<<>>)
    /\ pc # "crashed"
    /\ error = "none"

\* Startup has finished on a slot that held JSON that is not an array.
C6_Witness ==
  /\ boot.known
  /\ pc = "idle"
  /\ boot.slot.has
  /\ JSONParse(boot.slot.text).ok
  /\ ~IsArray(JSONParse(boot.slot.text).v)

\* C7: a write that fails changes nothing in memory, raises no error, and
\* is followed by what follows a write that succeeds.
C7_WriteFailureSwallowed ==
  [][(pc \in {"mountPersist", "persist"} /\ lastSave' = "failed")
       => /\ expenses' = expenses
          /\ pending' = pending
          /\ error' = "none"
          /\ pc' = AfterPersist]_vars

\* The save after the second add failed: memory is ahead of the slot and
\* the application is ready for the next intent.
C7_Witness ==
  /\ lastSave = "failed"
  /\ pc = "idle"
  /\ Len(Records) = 2
  /\ slot = Item(Stringify(Arr(Tail(Records))))

\* The indices of the records the filter f selects: all of them for "all",
\* else those whose date starts with the seven characters of f.
Matching(exp, f) ==
  {i \in 1..Len(exp.a) :
     \/ f = All
     \/ /\ Len(f) = 7
        /\ Len(Get(exp.a[i], K_date).s) >= 7
        /\ \A k \in 1..7 : Get(exp.a[i], K_date).s[k] = f[k]}

RECURSIVE SumOver(_, _)
\* The sum of the amounts of the records of exp at the indices S.
SumOver(exp, S) ==
  IF S = {} THEN Fin(0, 0)
  ELSE LET i == CHOOSE i \in S : TRUE
       IN NumAdd(AmountOf(exp.a[i]), SumOver(exp, S \ {i}))

\* C8: the total is the sum of the amounts of the records the filter
\* selects (0 when there is none) and the entry count is their number.
C8_TotalOfFiltered ==
  /\ total = SumOver(expenses, Matching(expenses, filterMonth))
  /\ entries = Cardinality(Matching(expenses, filterMonth))

\* A month filter selects some but not all of the records.
C8_Witness ==
  /\ filterMonth # All
  /\ entries = 1
  /\ Len(Records) = 2
  /\ total = AmountOf(Records[2])
  /\ total # Fin(0, 0)

\* C9: whenever the application waits for an intent and the latest write
\* succeeded, the slot holds the serialization of the collection.
C9_SlotMirrors ==
  (pc = "idle" /\ lastSave = "ok") => slot = Item(Stringify(expenses))

\* After an intent, one record is held and its save succeeded, although an
\* earlier write had failed.
C9_Witness ==
  /\ pc = "idle"
  /\ lastSave = "ok"
  /\ ~boot.known
  /\ failures > 0
  /\ Len(Records) = 1
  /\ slot = Item(Stringify(expenses))

\* C10: while no intent has been issued, a session started on a slot that
\* holds a non-empty array of records keeps a serialization of that array
\* in the slot.
C10_StartupKeepsData ==
  (/\ boot.known
   /\ boot.storage = "ok"
   /\ boot.slot.has
   /\ JSONParse(boot.slot.text).ok
   /\ IsArray(JSONParse(boot.slot.text).v)
   /\ Len(JSONParse(boot.slot.text).v.a) > 0
   /\ ~RenderThrows(JSONParse(boot.slot.text).v))
    => /\ slot.has
       /\ JSONParse(slot.text).ok
       /\ JSONParse(slot.text).v = JSONParse(boot.slot.text).v

=============================================================================
